---- MODULE Spec2Model ----
(***************************************************************************)
(* A model of EurostatDataManager (src/eurostat_data_manager.py): the      *)
(* JSON-stat cube decoder, the ingestion of decoded records into the two   *)
(* SQLite tables, the scoring of a city and the two ranking queries.       *)
(*                                                                         *)
(* Python strings are sequences of one-character strings, so that          *)
(* endswith/startswith/upper/lower/in/int() are computed and not assumed.  *)
(* Python values are tagged records (PyNone, PyInt, PyStr), a dict is the   *)
(* sequence of its <<key, value>> items in insertion order, an SQL NULL is *)
(* the empty tuple and a non-null SQL value v is <<v>>.  Integers and       *)
(* floats are computed digit by digit: an int has any size, a float is an  *)
(* IEEE 754 double and every operation on floats rounds as the machine's.  *)
(***************************************************************************)
EXTENDS Integers, Sequences, FiniteSets, TLC

VARIABLES cities, indicators, last

vars == <<cities, indicators, last>>

(***************************************************************************)
(* Python values and strings                                               *)
(***************************************************************************)
PyNone == [t |-> "none"]
PyInt(n) == [t |-> "int", i |-> n]
PyStr(s) == [t |-> "str", s |-> s]

IsNone(x) == x.t = "none"
IsInt(x) == x.t = "int"
IsStr(x) == x.t = "str"

\* x == y on Python values: values of different types are never equal.
PyEq(x, y) ==
    /\ x.t = y.t
    /\ CASE x.t = "int" -> x.i = y.i
         [] x.t = "str" -> x.s = y.s
         [] OTHER -> TRUE

(***************************************************************************)
(* Natural numbers of any size: the sequence of the digits in base 2^15,   *)
(* the lowest first and the highest not 0, so that 0 is the empty          *)
(* sequence.  The integers of the model checker have 32 bits; the numbers  *)
(* of the program (Python's int and float, SQLite's INTEGER and REAL) are  *)
(* computed on these digits.                                               *)
(***************************************************************************)
\* digit i of a, 0 beyond the highest digit
Limb(a, i) == IF i \in 1..Len(a) THEN a[i] ELSE 0

\* the digits a without the zeros at the high end
BNorm(a) ==
    LET t == a \o <<>>
    IN  IF \A i \in 1..Len(t) : t[i] = 0 THEN <<>>
        ELSE SubSeq(t, 1, CHOOSE i \in 1..Len(t) :
                              t[i] # 0 /\ \A j \in (i + 1)..Len(t) : t[j] = 0)

RECURSIVE BOfNat(_)
BOfNat(n) == IF n = 0 THEN <<>> ELSE <<n % 32768>> \o BOfNat(n \div 32768)

\* -1, 0 or 1 as a is less than, equal to or greater than b
BCmp(a, b) ==
    IF Len(a) # Len(b) THEN (IF Len(a) < Len(b) THEN 0 - 1 ELSE 1)
    ELSE IF a = b THEN 0
    ELSE LET k == CHOOSE k \in 1..Len(a) :
                      a[k] # b[k] /\ \A j \in (k + 1)..Len(a) : a[j] = b[j]
         IN  IF a[k] < b[k] THEN 0 - 1 ELSE 1

\* a + b: digit i receives a carry when a lower digit overflows and every
\* digit between the two is full
BAdd(a, b) ==
    LET S(i) == Limb(a, i) + Limb(b, i)
        Carry(i) == IF \E j \in 1..(i - 1) :
                           S(j) >= 32768 /\ \A k \in (j + 1)..(i - 1) : S(k) = 32767
                    THEN 1 ELSE 0
    IN  BNorm([i \in 1..((IF Len(a) < Len(b) THEN Len(b) ELSE Len(a)) + 1) |->
                  (S(i) + Carry(i)) % 32768])

\* a - b for a >= b
BSub(a, b) ==
    LET Borrow(i) == IF \E j \in 1..(i - 1) :
                            /\ a[j] < Limb(b, j)
                            /\ \A k \in (j + 1)..(i - 1) : a[k] = Limb(b, k)
                     THEN 1 ELSE 0
    IN  BNorm([i \in 1..Len(a) |-> (a[i] - Limb(b, i) - Borrow(i) + 32768) % 32768])

\* a * k for 0 <= k < 2^15
BMulSmall(a, k) ==
    BAdd([i \in 1..Len(a) |-> (a[i] * k) % 32768] \o <<>>,
         <<0>> \o [i \in 1..Len(a) |-> (a[i] * k) \div 32768])

\* a * 2^k and a \div 2^k
BShl(a, k) ==
    BNorm([i \in 1..(Len(a) + (k \div 15) + 1) |->
              ((Limb(a, i - (k \div 15)) * 2^(k % 15)) % 32768)
                + (Limb(a, i - (k \div 15) - 1) \div 2^(15 - (k % 15)))])
BShr(a, k) ==
    BNorm([i \in 1..(Len(a) - (k \div 15)) |->
              (a[i + (k \div 15)] \div 2^(k % 15))
                + ((Limb(a, i + (k \div 15) + 1) % 2^(k % 15)) * 2^(15 - (k % 15)))])

RECURSIVE BMul(_, _)
BMul(a, b) ==
    IF a = <<>> \/ b = <<>> THEN <<>>
    ELSE IF Len(b) = 1 THEN BMulSmall(a, b[1])
    ELSE LET h == Len(b) \div 2
         IN  BAdd(BMul(a, BNorm(SubSeq(b, 1, h))),
                  BShl(BMul(a, SubSeq(b, h + 1, Len(b))), 15 * h))

\* <<a \div b, a % b>> for b > 0, by long division from the highest digit of
\* a; Digit(x, lo, hi) is the largest q in lo..(hi - 1) with q * b <= x
RECURSIVE BDivMod(_, _)
BDivMod(a, b) ==
    IF Len(a) < Len(b) THEN <<<<>>, a>>
    ELSE LET RECURSIVE Digit(_, _, _)
             Digit(x, lo, hi) ==
                 IF hi - lo = 1 THEN lo
                 ELSE IF BCmp(BMulSmall(b, (lo + hi) \div 2), x) <= 0
                 THEN Digit(x, (lo + hi) \div 2, hi)
                 ELSE Digit(x, lo, (lo + hi) \div 2)
             Out(hi, x, q) ==
                 <<IF hi[1] = <<>> /\ q = 0 THEN <<>> ELSE <<q>> \o hi[1],
                   BSub(x, BMulSmall(b, q))>>
             Low(hi, x) == Out(hi, x, Digit(x, 0, 32768))
             High(hi) == Low(hi, BNorm(<<a[1]>> \o hi[2]))
         IN  High(BDivMod(Tail(a), b))

\* the number of binary digits of a
BBitLen(a) ==
    IF a = <<>> THEN 0
    ELSE 15 * (Len(a) - 1)
           + (CHOOSE k \in 1..15 : a[Len(a)] < 2^k /\ a[Len(a)] >= 2^(k - 1))

RECURSIVE BPow10(_)
BPow10(n) ==
    IF n = 0 THEN <<1>>
    ELSE IF n % 2 = 1 THEN BMulSmall(BPow10(n - 1), 10)
    ELSE LET h == BPow10(n \div 2) IN BMul(h, h)

\* the number written with the decimal digits ds (integers 0..9)
RECURSIVE BOfDigits(_)
BOfDigits(ds) ==
    IF Len(ds) <= 1 THEN BOfNat(IF ds = <<>> THEN 0 ELSE ds[1])
    ELSE LET h == Len(ds) \div 2
         IN  BAdd(BMul(BPow10(Len(ds) - h), BOfDigits(SubSeq(ds, 1, h))),
                  BOfDigits(SubSeq(ds, h + 1, Len(ds))))

(***************************************************************************)
(* Python's int and SQLite's INTEGER: a sign s (1, and -1 for the numbers  *)
(* below 0) and a magnitude m.                                             *)
(***************************************************************************)
ZLess(a, b) ==
    IF a.s # b.s THEN a.s < b.s
    ELSE IF a.s = 1 THEN BCmp(a.m, b.m) < 0 ELSE BCmp(b.m, a.m) < 0
\* -2^63 <= a < 2^63, the integers SQLite stores
ZFits64(a) ==
    \/ BBitLen(a.m) <= 63
    \/ a.s = 0 - 1 /\ a.m = BShl(<<1>>, 63)

(***************************************************************************)
(* Python's float and SQLite's REAL: the IEEE 754 doubles.  A finite       *)
(* double is s * m * 2^e with a sign s (1 or -1), an odd m below 2^53 and  *)
(* -1074 <= e; the two zeros have m = 0 and e = 0.  inf and -inf have the  *)
(* sign only, nan has none.  Every operation computes the exact result     *)
(* and rounds it once, to the nearest double and to the even one of two    *)
(* that are equally near.                                                  *)
(***************************************************************************)
FFin(s, m, e) == [k |-> "fin", s |-> s, m |-> m, e |-> e]
FInf(s) == [k |-> "inf", s |-> s, m |-> <<>>, e |-> 0]
NaN == [k |-> "nan", s |-> 1, m |-> <<>>, e |-> 0]
IsNaN(x) == x.k = "nan"

\* the integer nearest to (q + f) / 2^t for t > 0 and a fraction 0 <= f < 1
\* that is above 0 exactly when sticky holds; a half goes to the even side
RoundShift(q, t, sticky) ==
    LET m == BShr(q, t)
        Up(c) == c > 0 \/ (c = 0 /\ (sticky \/ Limb(m, 1) % 2 = 1))
    IN  IF Up(BCmp(BSub(q, BShl(m, t)), BShl(<<1>>, t - 1)))
        THEN BAdd(m, <<1>>) ELSE m

\* the double s * m * 2^u of an m below 2^53 or, when u is the exponent of
\* the last place at the size of m * 2^u, of m = 2^53: inf from 2^1024 on
Canon(s, m, u) ==
    IF m = <<>> THEN FFin(s, m, 0)
    ELSE IF BBitLen(m) + u > 1024 THEN FInf(s)
    ELSE LET i == CHOOSE i \in 1..Len(m) : m[i] # 0 /\ \A j \in 1..(i - 1) : m[j] = 0
             t == CHOOSE t \in 0..14 : m[i] % 2^t = 0 /\ m[i] % 2^(t + 1) # 0
         IN  FFin(s, BShr(m, 15 * (i - 1) + t), u + 15 * (i - 1) + t)

\* the double nearest to s * (q + f) * 2^x for the quotient q = qr[1] and a
\* fraction f as in RoundShift, above 0 exactly when the remainder qr[2] is:
\* u is the exponent of the last place of a double of that size, -1074 for
\* the subnormal ones
RoundQuot(s, qr, x) ==
    LET n == BBitLen(qr[1])
        u == IF n + x - 53 > 0 - 1074 THEN n + x - 53 ELSE 0 - 1074
    IN  Canon(s, IF u <= x THEN qr[1] ELSE RoundShift(qr[1], u - x, qr[2] # <<>>),
              IF u <= x THEN x ELSE u)

\* the double nearest to s * (p / q) * 2^e for q > 0: the quotient is taken
\* to 55 or 56 binary digits, and its remainder is the sticky fraction
Round(s, p, q, e) ==
    IF p = <<>> THEN FFin(s, p, 0)
    ELSE LET k == IF q = <<1>> THEN 0 ELSE 55 - (BBitLen(p) - BBitLen(q))
         IN  RoundQuot(s, IF q = <<1>> THEN <<p, <<>>>>
                          ELSE BDivMod(IF k > 0 THEN BShl(p, k) ELSE p,
                                       IF k < 0 THEN BShl(q, 0 - k) ELSE q),
                       e - k)

FZero == FFin(1, <<>>, 0)
FOne == FFin(1, <<1>>, 0)
FNeg(x) == IF IsNaN(x) THEN x ELSE [x EXCEPT !.s = 0 - x.s]

\* x + y: inf + -inf is nan, and a sum that is exactly 0 is 0.0 unless both
\* terms are -0.0
FAdd(x, y) ==
    IF IsNaN(x) \/ IsNaN(y) THEN NaN
    ELSE IF x.k = "inf" THEN (IF y.k = "inf" /\ y.s # x.s THEN NaN ELSE x)
    ELSE IF y.k = "inf" THEN y
    ELSE LET e == IF x.e < y.e THEN x.e ELSE y.e
             a == BShl(x.m, x.e - e)
             b == BShl(y.m, y.e - e)
             c == BCmp(a, b)
         IN  IF x.s # y.s /\ c = 0 THEN FZero
             ELSE Round(IF x.s = y.s \/ c > 0 THEN x.s ELSE y.s,
                        IF x.s = y.s THEN BAdd(a, b)
                        ELSE IF c > 0 THEN BSub(a, b) ELSE BSub(b, a),
                        <<1>>, e)

\* x * k and x / k for an integer k (k # 0 in x / k), which Python converts
\* to the float k.0 first: inf * 0 is nan
FScale(x, k) ==
    IF IsNaN(x) \/ (x.k = "inf" /\ k = 0) THEN NaN
    ELSE IF x.k = "inf" THEN FInf(IF k < 0 THEN 0 - x.s ELSE x.s)
    ELSE Round(IF k < 0 THEN 0 - x.s ELSE x.s,
               BMul(x.m, BOfNat(IF k < 0 THEN 0 - k ELSE k)), <<1>>, x.e)
FOver(x, k) ==
    IF IsNaN(x) THEN NaN
    ELSE IF x.k = "inf" THEN FInf(IF k < 0 THEN 0 - x.s ELSE x.s)
    ELSE Round(IF k < 0 THEN 0 - x.s ELSE x.s,
               x.m, BOfNat(IF k < 0 THEN 0 - k ELSE k), x.e)

\* x > 0 and x < y: every comparison with nan is false, and -0.0 is not
\* below 0.0
FPositive(x) == ~IsNaN(x) /\ x.s = 1 /\ (x.k = "inf" \/ x.m # <<>>)
FLess(x, y) ==
    LET IsZero(a) == a.k = "fin" /\ a.m = <<>>
        \* |a| < |b| for a and b other than 0
        Smaller(a, b) ==
            /\ a.k = "fin"
            /\ \/ b.k = "inf"
               \/ LET e == IF a.e < b.e THEN a.e ELSE b.e
                  IN  BCmp(BShl(a.m, a.e - e), BShl(b.m, b.e - e)) < 0
    IN  /\ ~IsNaN(x)
        /\ ~IsNaN(y)
        /\ IF IsZero(x) THEN FPositive(y)
           ELSE IF IsZero(y) THEN x.s = 0 - 1
           ELSE IF x.s # y.s THEN x.s < y.s
           ELSE IF x.s = 1 THEN Smaller(x, y) ELSE Smaller(y, x)

\* the double nearest to s * d * 10^k for a d of at most nd decimal digits:
\* beyond the range of the doubles it is inf or a zero whatever the digits
FDecimal(s, d, nd, k) ==
    IF d = <<>> \/ k + nd < 0 - 330 THEN FFin(s, <<>>, 0)
    ELSE IF k > 330 THEN FInf(s)
    ELSE Round(s, IF k >= 0 THEN BMul(d, BPow10(k)) ELSE d,
               IF k >= 0 THEN <<1>> ELSE BPow10(0 - k), 0)

(***************************************************************************)
(* Strings.  The alphabet of the model is ASCII, Latin-1 without the       *)
(* letter y with diaeresis, the Greek mu, the separator U+1680 and the     *)
(* decimal digits of eighteen more scripts.                                *)
(***************************************************************************)
LowerAlpha == <<"a","b","c","d","e","f","g","h","i","j","k","l","m","n","o",
               "p","q","r","s","t","u","v","w","x","y","z","à","á","â","ã",
               "ä","å","æ","ç","è","é","ê","ë","ì","í","î","ï","ð","ñ","ò",
               "ó","ô","õ","ö","ø","ù","ú","û","ü","ý","þ","μ">>
UpperAlpha == <<"A","B","C","D","E","F","G","H","I","J","K","L","M","N","O",
               "P","Q","R","S","T","U","V","W","X","Y","Z","À","Á","Â","Ã",
               "Ä","Å","Æ","Ç","È","É","Ê","Ë","Ì","Í","Î","Ï","Ð","Ñ","Ò",
               "Ó","Ô","Õ","Ö","Ø","Ù","Ú","Û","Ü","Ý","Þ","Μ">>
\* the decimal digits: one row per script, the digits 0 to 9 in order
Digits ==
    <<<<"0","1","2","3","4","5","6","7","8","9">>,
      <<"۰","۱","۲","۳","۴","۵","۶","۷","۸","۹">>,
      <<"߀","߁","߂","߃","߄","߅","߆","߇","߈","߉">>,
      <<"০","১","২","৩","৪","৫","৬","৭","৮","৯">>,
      <<"૦","૧","૨","૩","૪","૫","૬","૭","૮","૯">>,
      <<"௦","௧","௨","௩","௪","௫","௬","௭","௮","௯">>,
      <<"೦","೧","೨","೩","೪","೫","೬","೭","೮","೯">>,
      <<"෦","෧","෨","෩","෪","෫","෬","෭","෮","෯">>,
      <<"໐","໑","໒","໓","໔","໕","໖","໗","໘","໙">>,
      <<"႐","႑","႒","႓","႔","႕","႖","႗","႘","႙">>,
      <<"០","១","២","៣","៤","៥","៦","៧","៨","៩">>,
      <<"᧐","᧑","᧒","᧓","᧔","᧕","᧖","᧗","᧘","᧙">>,
      <<"᪀","᪁","᪂","᪃","᪄","᪅","᪆","᪇","᪈","᪉">>,
      <<"᪐","᪑","᪒","᪓","᪔","᪕","᪖","᪗","᪘","᪙">>,
      <<"᮰","᮱","᮲","᮳","᮴","᮵","᮶","᮷","᮸","᮹">>,
      <<"꣐","꣑","꣒","꣓","꣔","꣕","꣖","꣗","꣘","꣙">>,
      <<"꧐","꧑","꧒","꧓","꧔","꧕","꧖","꧗","꧘","꧙">>,
      <<"꧰","꧱","꧲","꧳","꧴","꧵","꧶","꧷","꧸","꧹">>,
      <<"꯰","꯱","꯲","꯳","꯴","꯵","꯶","꯷","꯸","꯹">>>>

\* str.upper() and str.lower(): the capital of the sharp s is SS, and the
\* capital of the micro sign is the Greek capital mu
Upper(s) ==
    LET UpperChar(c) ==
            IF \E k \in 1..Len(LowerAlpha) : LowerAlpha[k] = c
            THEN <<UpperAlpha[CHOOSE k \in 1..Len(LowerAlpha) : LowerAlpha[k] = c]>>
            ELSE IF c = "ß" THEN <<"S", "S">>
            ELSE IF c = "µ" THEN <<"Μ">>
            ELSE <<c>>
        RECURSIVE Concat(_)
        Concat(n) == IF n = 0 THEN <<>> ELSE Concat(n - 1) \o UpperChar(s[n])
    IN  Concat(Len(s))
Lower(s) ==
    LET LowerChar(c) ==
            IF \E k \in 1..Len(UpperAlpha) : UpperAlpha[k] = c
            THEN LowerAlpha[CHOOSE k \in 1..Len(UpperAlpha) : UpperAlpha[k] = c]
            ELSE c
    IN  [k \in 1..Len(s) |-> LowerChar(s[k])]

\* s[:n]
Prefix(s, n) == SubSeq(s, 1, IF n < Len(s) THEN n ELSE Len(s))

\* s.startswith(p), s.endswith(p), p in s
StartsWith(s, p) == Len(p) <= Len(s) /\ SubSeq(s, 1, Len(p)) = p
EndsWith(s, p) == Len(p) <= Len(s) /\ SubSeq(s, Len(s) - Len(p) + 1, Len(s)) = p
Contains(s, p) ==
    \E k \in 0..(Len(s) - Len(p)) : SubSeq(s, k + 1, k + Len(p)) = p

IsDigit(c) == \E r \in 1..Len(Digits), k \in 1..10 : Digits[r][k] = c
DigitVal(c) ==
    (CHOOSE k \in 1..10 : \E r \in 1..Len(Digits) : Digits[r][k] = c) - 1

\* the characters int() and float() skip around a number: the ASCII
\* whitespace (vertical tab included, the separators 0x1c to 0x1f not) and
\* the spaces past ASCII
Whitespace == {" ", "\t", "\n", "\r", "\f", "", "", " ", " "}

\* the text without the whitespace at its two ends
Strip(s) ==
    LET Inner == {k \in 1..Len(s) : s[k] \notin Whitespace}
    IN  IF Inner = {} THEN <<>>
        ELSE SubSeq(s, CHOOSE k \in Inner : \A m \in Inner : k <= m,
                       CHOOSE k \in Inner : \A m \in Inner : m <= k)

\* a text without its one optional sign, and whether that sign is a minus
Unsigned(s) == IF s # <<>> /\ s[1] \in {"-", "+"} THEN Tail(s) ELSE s
Negative(s) == s # <<>> /\ s[1] = "-"

\* digits, with single underscores allowed between two digits
IsDigitPart(s) ==
    /\ s # <<>>
    /\ \A k \in 1..Len(s) : IsDigit(s[k]) \/ s[k] = "_"
    /\ IsDigit(s[1])
    /\ IsDigit(s[Len(s)])
    /\ \A k \in 1..(Len(s) - 1) : ~(s[k] = "_" /\ s[k + 1] = "_")
\* the values of the digits of such a text
DigitPart(s) ==
    LET ds == SelectSeq(s, IsDigit)
    IN  [k \in 1..Len(ds) |-> DigitVal(ds[k])] \o <<>>

\* the first position of character c in s, 0 when there is none
FirstIndex(s, c) ==
    IF \E k \in 1..Len(s) : s[k] = c
    THEN CHOOSE k \in 1..Len(s) : s[k] = c /\ \A m \in 1..(k - 1) : s[m] # c
    ELSE 0

\* s.partition(c): the text before the first c (all of s when there is
\* none) and the text after it
HasChar(s, c) == FirstIndex(s, c) # 0
Before(s, c) == IF HasChar(s, c) THEN SubSeq(s, 1, FirstIndex(s, c) - 1) ELSE s
After(s, c) == IF HasChar(s, c) THEN SubSeq(s, FirstIndex(s, c) + 1, Len(s)) ELSE <<>>

\* int(s) of a text: whitespace around it, one optional sign, then digits
\* that single underscores may separate, 4300 digits at most
IsIntText(s) ==
    /\ IsDigitPart(Unsigned(Strip(s)))
    /\ Len(DigitPart(Unsigned(Strip(s)))) <= 4300
IntTextVal(s) ==
    LET m == BOfDigits(DigitPart(Unsigned(Strip(s))))
    IN  [s |-> IF Negative(Strip(s)) /\ m # <<>> THEN 0 - 1 ELSE 1, m |-> m]

\* float(s) of a text: whitespace around it, one optional sign, then inf,
\* infinity or nan in any case, or a decimal: digits with an optional
\* fraction (one of the two sides of the point may be empty) and an
\* optional exponent
FloatBody(s) == Lower(Unsigned(Strip(s)))
IsInfText(b) == b \in { <<"i","n","f">>, <<"i","n","f","i","n","i","t","y">> }
IsNanText(b) == b = <<"n","a","n">>
IsFloatText(s) ==
    LET IsMantissa(ip, fp, pointed) ==
            IF ~pointed THEN IsDigitPart(ip)
            ELSE IF ip = <<>> THEN IsDigitPart(fp)
            ELSE IsDigitPart(ip) /\ (fp = <<>> \/ IsDigitPart(fp))
        IsDecimal(mant, ex, present) ==
            /\ IsMantissa(Before(mant, "."), After(mant, "."), HasChar(mant, "."))
            /\ present => IsDigitPart(Unsigned(ex))
        IsFloatBody(b) ==
            \/ IsInfText(b)
            \/ IsNanText(b)
            \/ IsDecimal(Before(b, "e"), After(b, "e"), HasChar(b, "e"))
    IN  IsFloatBody(FloatBody(s))

\* the double nearest to the decimal: the digits of the mantissa, times ten
\* to the exponent less the number of digits after the point.  An exponent
\* of 2^30 or more, which no mantissa the model can hold makes up for,
\* counts as 2^30.
FloatTextVal(s) ==
    LET sign == IF Negative(Strip(s)) THEN 0 - 1 ELSE 1
        b == FloatBody(s)
        \* the digits before and after the point, and the exponent, which
        \* decides alone from 2^30 on
        ds == DigitPart(Before(Before(b, "e"), "."))
        fs == DigitPart(After(Before(b, "e"), "."))
        Clamped(m) == IF Len(m) > 2 THEN 2^30 ELSE Limb(m, 1) + 32768 * Limb(m, 2)
        Signed(ex, n) == IF Negative(ex) THEN 0 - n ELSE n
    IN  IF IsInfText(b) THEN FInf(sign)
        ELSE IF IsNanText(b) THEN NaN
        ELSE FDecimal(sign, BOfDigits(ds \o fs), Len(ds \o fs),
                      Signed(After(b, "e"),
                             Clamped(BOfDigits(DigitPart(Unsigned(After(b, "e"))))))
                        - Len(fs))

(***************************************************************************)
(* dict: the sequence of its items, in insertion order                     *)
(***************************************************************************)
DictHas(d, k) == \E n \in 1..Len(d) : d[n][1] = k
DictGet(d, k, default) ==
    IF DictHas(d, k) THEN d[CHOOSE n \in 1..Len(d) : d[n][1] = k][2] ELSE default
\* d[k] = v: an existing key keeps its position
DictSet(d, k, v) ==
    IF DictHas(d, k)
    THEN [n \in 1..Len(d) |-> IF d[n][1] = k THEN <<k, v>> ELSE d[n]]
    ELSE Append(d, <<k, v>>)

\* dicts whose keys are Python values of mixed types (the status map)
PyDictGet(d, k, default) ==
    IF \E n \in 1..Len(d) : PyEq(d[n][1], k)
    THEN d[CHOOSE n \in 1..Len(d) : PyEq(d[n][1], k)][2]
    ELSE default

\* next((k for k in record if P(k)), None): the first key satisfying P
FirstKey(d, P(_)) ==
    IF \E n \in 1..Len(d) : P(d[n][1])
    THEN <<d[CHOOSE n \in 1..Len(d) :
                /\ P(d[n][1])
                /\ \A m \in 1..(n - 1) : ~P(d[m][1])][1]>>
    ELSE <<>>

(***************************************************************************)
(* parse_jsonstat and _index_to_coords                                     *)
(***************************************************************************)
RECURSIVE Product(_)
Product(sizes) ==
    IF sizes = <<>> THEN 1 ELSE Head(sizes) * Product(Tail(sizes))

\* A size of 0 makes `index % size` raise ZeroDivisionError.
CoordsRaise(sizes) == \E k \in 1..Len(sizes) : sizes[k] = 0

RECURSIVE CoordsReversed(_, _)
\* the loop of _index_to_coords: coords collected from the last dimension
CoordsReversed(index, sizes) ==
    IF sizes = <<>> THEN <<>>
    ELSE LET size == sizes[Len(sizes)]
         IN  <<index % size>>
               \o CoordsReversed(index \div size, SubSeq(sizes, 1, Len(sizes) - 1))

\* A decoder that returns the coordinates as collected, without the final
\* reversal.
index_to_coords_unreversed(index, sizes) == CoordsReversed(index, sizes)

index_to_coords(index, sizes) ==
    LET coords == CoordsReversed(index, sizes)
    IN  [k \in 1..Len(coords) |-> coords[Len(coords) + 1 - k]]

LabelKey(dim_name) == dim_name \o <<"_","l","a","b","e","l">>

\* indices[dim_name] and indices[dim_name + "_label"]: the category index
\* and label dicts, {} when the cube has no metadata for the dimension
Category(data, dim_name) ==
    DictGet(data.dimension, dim_name, [index |-> <<>>, label |-> <<>>])

\* A decoder that takes the key at position dim_index of the dict instead
\* of the key whose index value is dim_index.
CatKeyAtPosition(cat_index, dim_index) ==
    IF dim_index + 1 \in 1..Len(cat_index)
    THEN <<cat_index[dim_index + 1][1]>>
    ELSE <<>>

\* the first key of cat_index whose value is dim_index, if any
CatKeyAt(cat_index, dim_index) ==
    IF \E n \in 1..Len(cat_index) : cat_index[n][2] = dim_index
    THEN <<cat_index[CHOOSE n \in 1..Len(cat_index) :
                /\ cat_index[n][2] = dim_index
                /\ \A m \in 1..(n - 1) : cat_index[m][2] # dim_index][1]>>
    ELSE <<>>

RECURSIVE RecordDims(_, _, _, _)
\* the inner loop over enumerate(dim_names), from position i on
RecordDims(data, coords, i, record) ==
    IF i > Len(data.id) THEN record
    ELSE LET dim_name == data.id[i]
             found == CatKeyAt(Category(data, dim_name).index, coords[i])
             withDim ==
                 IF found = <<>> THEN record
                 ELSE LET key == found[1]
                      IN  DictSet(DictSet(record, dim_name, PyStr(key)),
                                  LabelKey(dim_name),
                                  PyStr(DictGet(Category(data, dim_name).label, key, key)))
         IN  RecordDims(data, coords, i + 1, withDim)

\* status.get(idx, '') if status else '': idx is an int
StatusAt(data, idx) ==
    IF data.status # <<>> THEN PyStr(PyDictGet(data.status, PyInt(idx), <<>>))
    ELSE PyStr(<<>>)

\* the record built for flat index idx (0-based)
RecordAt(data, idx) ==
    LET coords == index_to_coords(idx, data.size)
        dims == RecordDims(data, coords, 1, <<>>)
    IN  DictSet(DictSet(dims, <<"v","a","l","u","e">>, data.value[idx + 1]),
                <<"s","t","a","t","u","s">>, StatusAt(data, idx))

\* coords[i] raises IndexError when fewer sizes than dimension names
ParseRaises(data) ==
    /\ data.value # <<>>
    /\ \/ CoordsRaise(data.size)
       \/ Len(data.size) < Len(data.id)

parse_jsonstat(data) ==
    IF ParseRaises(data)
    THEN [ok |-> FALSE,
          error |-> IF CoordsRaise(data.size) THEN "ZeroDivisionError"
                    ELSE "IndexError",
          records |-> <<>>]
    ELSE [ok |-> TRUE, error |-> "",
          records |-> [n \in 1..Len(data.value) |-> RecordAt(data, n - 1)]]

(***************************************************************************)
(* The two tables.  cities is the rows of table cities in rowid order,     *)
(* indicators the rows of table indicators in id order (AUTOINCREMENT: a   *)
(* new row always comes last).  lat and lng are written by ingest_csv and  *)
(* read by no operation modelled here; they are left out.                  *)
(***************************************************************************)
NULL == <<>>
Val(v) == <<v>>

\* the rows of s satisfying Keep, in order
Filter(s, Keep(_)) ==
    LET RECURSIVE F(_)
        F(n) == IF n = 0 THEN <<>>
                ELSE IF Keep(s[n]) THEN Append(F(n - 1), s[n]) ELSE F(n - 1)
    IN  F(Len(s))

\* INSERT OR IGNORE INTO cities (city_code, city_name, country)
InsertOrIgnoreCity(cs, code, name, country) ==
    IF \E n \in 1..Len(cs) : cs[n].city_code = code THEN cs
    ELSE Append(cs, [city_code |-> code, city_name |-> name,
                     country |-> country, population |-> NULL])

\* INSERT OR REPLACE INTO cities: the row with the same primary key is
\* deleted and the new row gets a fresh, largest rowid
InsertOrReplaceCity(cs, row) ==
    LET Other(r) == r.city_code # row.city_code
    IN  Append(Filter(cs, Other), row)

\* UNIQUE(city_code, indicator_code, year): SQLite never finds two rows in
\* conflict when the year of either is NULL (INSERT OR REPLACE INTO indicators)
InsertOrReplaceIndicator(inds, row) ==
    LET Conflicts(r) ==
            /\ r.city_code = row.city_code
            /\ r.indicator_code = row.indicator_code
            /\ r.year # NULL
            /\ row.year # NULL
            /\ r.year = row.year
        Keep(r) == ~Conflicts(r)
    IN  Append(Filter(inds, Keep), row)

(***************************************************************************)
(* ingest_csv: the rows of the gazetteer file, already read                *)
(***************************************************************************)
RECURSIVE IngestRows(_, _)
IngestRows(cs, rows) ==
    IF rows = <<>> THEN cs
    ELSE IngestRows(InsertOrReplaceCity(cs, Head(rows)), Tail(rows))

(***************************************************************************)
(* store_data                                                              *)
(***************************************************************************)
KeyValue == <<"v","a","l","u","e">>
KeyStatus == <<"s","t","a","t","u","s">>
KeyTime == <<"t","i","m","e">>

IsCityKey(k) == EndsWith(k, <<"i","e","s">>)
IsIndicKey(k) == StartsWith(k, <<"i","n","d","i","c">>)
IsYearKey(k) == k = KeyTime

\* int(x): TypeError on None, ValueError on a text that is no integer
IntRaises(x) == IsNone(x) \/ (IsStr(x) /\ ~IsIntText(x.s))
IntVal(x) ==
    IF IsStr(x) THEN IntTextVal(x.s)
    ELSE [s |-> IF x.i < 0 THEN 0 - 1 ELSE 1, m |-> BOfNat(IF x.i < 0 THEN 0 - x.i ELSE x.i)]

\* float(x): TypeError on None, ValueError on a text that is no number
FloatRaises(x) == IsNone(x) \/ (IsStr(x) /\ ~IsFloatText(x.s))
FloatVal(x) ==
    IF IsStr(x) THEN FloatTextVal(x.s)
    ELSE Round(IF x.i < 0 THEN 0 - 1 ELSE 1, BOfNat(IF x.i < 0 THEN 0 - x.i ELSE x.i),
               <<1>>, 0)

\* a float bound to a REAL column: SQLite stores nan as NULL and -0.0 as 0.0
BindReal(v) ==
    IF v = <<>> \/ IsNaN(v[1]) THEN <<>>
    ELSE IF v[1].k = "fin" /\ v[1].m = <<>> THEN <<FZero>>
    ELSE v

\* year = int(record.get(year_key, 0)) if year_key else None; the INSERT
\* raises OverflowError on a year that is no 64-bit integer
YearRaises(record) ==
    LET year_key == FirstKey(record, IsYearKey)
    IN  /\ year_key # <<>>
        /\ \/ IntRaises(DictGet(record, year_key[1], PyInt(0)))
           \/ ~ZFits64(IntVal(DictGet(record, year_key[1], PyInt(0))))
YearOf(record) ==
    LET year_key == FirstKey(record, IsYearKey)
    IN  IF year_key = <<>> THEN NULL
        ELSE Val(IntVal(DictGet(record, year_key[1], PyInt(0))))

\* value = float(record.get('value', None)) if record.get('value') is not None else None
ValueRaises(record) ==
    LET v == DictGet(record, KeyValue, PyNone)
    IN  ~IsNone(v) /\ FloatRaises(v)
ValueOf(record) ==
    LET v == DictGet(record, KeyValue, PyNone)
    IN  IF IsNone(v) THEN NULL ELSE Val(FloatVal(v))

\* one iteration of the loop of store_data over st = the tables and the
\* four counters
ProcessRecord(st, record) ==
    LET city_key == FirstKey(record, IsCityKey)
    IN
    IF city_key = <<>> THEN [st EXCEPT !.skipped = @ + 1]
    ELSE
    LET city_code == DictGet(record, city_key[1], PyNone).s
        city_name == DictGet(record, LabelKey(city_key[1]), PyNone)
    IN
    IF city_code = <<>> \/ ~EndsWith(city_code, <<"C">>)
    THEN [st EXCEPT !.skipped = @ + 1]
    ELSE
    LET country == Upper(Prefix(city_code, 2))
        cs == InsertOrIgnoreCity(st.cities, city_code,
                                 IF IsNone(city_name) THEN NULL ELSE Val(city_name.s),
                                 Val(country))
        st1 == [st EXCEPT !.cities = cs,
                          !.cities_added = IF cs # st.cities THEN @ + 1 ELSE @]
        indic_key == FirstKey(record, IsIndicKey)
    IN
    IF indic_key = <<>> THEN st1
    ELSE IF YearRaises(record) \/ ValueRaises(record)
    THEN [st1 EXCEPT !.errors = @ + 1]
    ELSE
    LET name == DictGet(record, LabelKey(indic_key[1]), PyNone)
        row == [city_code |-> city_code,
                indicator_code |-> DictGet(record, indic_key[1], PyNone).s,
                indicator_name |-> IF IsNone(name) THEN NULL ELSE Val(name.s),
                year |-> YearOf(record),
                value |-> BindReal(ValueOf(record)),
                status |-> Val(DictGet(record, KeyStatus, PyStr(<<>>)).s)]
    IN  [st1 EXCEPT !.indicators = InsertOrReplaceIndicator(@, row),
                    !.indicators_added = @ + 1]

RECURSIVE StoreRecordsAborting(_, _)
\* A loop with the try around it: the first record that raises ends the batch.
StoreRecordsAborting(st, records) ==
    IF records = <<>> THEN st
    ELSE LET Step(next) ==
                 IF next.errors > st.errors THEN next
                 ELSE StoreRecordsAborting(next, Tail(records))
         IN  Step(ProcessRecord(st, Head(records)))

RECURSIVE StoreRecords(_, _)
StoreRecords(st, records) ==
    IF records = <<>> THEN st
    ELSE StoreRecords(ProcessRecord(st, Head(records)), Tail(records))

\* store_data from tables cs and inds: the records it decoded, whether the
\* decoder raised (then no statement ran), and the tables and counters it
\* ends with
store_data(cs, inds, dataset) ==
    LET parsed == parse_jsonstat(dataset)
        Report(st) ==
            [raised |-> ~parsed.ok, records |-> parsed.records,
             cities |-> st.cities, indicators |-> st.indicators,
             cities_added |-> st.cities_added,
             indicators_added |-> st.indicators_added,
             skipped |-> st.skipped, errors |-> st.errors]
    IN  Report(StoreRecords([cities |-> cs, indicators |-> inds, cities_added |-> 0,
                             indicators_added |-> 0, skipped |-> 0, errors |-> 0],
                            parsed.records))

(***************************************************************************)
(* _normalize_value and _is_lower_better                                   *)
(***************************************************************************)
PercentScale == 100
MinutesScale == 60
KmScale == 50
EurScale == 100
PerThousandScale == 1000
DefaultScale == 100000

\* the divisor chosen by the first keyword found in the lower-cased name
UnitScale(indicator_name) ==
    LET name == Lower(indicator_name)
    IN  IF Contains(name, <<"%">>) THEN PercentScale
        ELSE IF Contains(name, <<"m","i","n","u","t","e","s">>) THEN MinutesScale
        ELSE IF Contains(name, <<"k","m">>) THEN KmScale
        ELSE IF Contains(name, <<"e","u","r">>) THEN EurScale
        ELSE IF Contains(name, <<"p","e","r"," ","1","0","0","0">>) THEN PerThousandScale
        ELSE DefaultScale

\* min(value / scale, 1.0)
normalize_value(value, indicator_name) ==
    LET min(scaled) == IF FLess(FOne, scaled) THEN FOne ELSE scaled
    IN  min(FOver(value, UnitScale(indicator_name)))

LowerBetterKeywords ==
    { <<"c","a","r">>, <<"m","o","t","o","r"," ","c","y","c","l","e">>,
      <<"d","e","a","t","h">>, <<"a","c","c","i","d","e","n","t">>,
      <<"c","o","s","t">>, <<"t","i","m","e">>,
      <<"m","i","n","u","t","e","s">>, <<"e","u","r">> }

is_lower_better(indicator_name) ==
    LET name == Lower(indicator_name)
    IN  \E k \in LowerBetterKeywords : Contains(name, k)

(***************************************************************************)
(* calculate_score                                                         *)
(***************************************************************************)
\* ORDER BY year DESC: a NULL year sorts after every year; among rows of
\* equal (NULL) year the index is walked backwards, the newest row first
YearBefore(inds, m, n) ==
    IF inds[m].year = NULL THEN inds[n].year = NULL /\ m > n
    ELSE inds[n].year = NULL \/ ZLess(inds[n].year[1], inds[m].year[1])

\* SELECT value, indicator_name ... WHERE city_code = ? AND indicator_code = ?
\* ORDER BY year DESC LIMIT 1: <<row>>, or <<>> when fetchone() is None
LatestRow(inds, city_code, indicator_code) ==
    LET Match(n) == /\ inds[n].city_code = city_code
                    /\ inds[n].indicator_code = indicator_code
        found == {n \in 1..Len(inds) : Match(n)}
    IN  IF found = {} THEN <<>>
        ELSE <<inds[CHOOSE n \in found :
                      \A m \in found \ {n} : YearBefore(inds, n, m)]>>

\* if self._is_lower_better(indicator_name): normalized = 1 - normalized
Polarity(lower, normalized) ==
    IF lower THEN FAdd(FOne, FNeg(normalized)) ELSE normalized

\* the body of the loop over weights.items() for the row fetched:
\* acc = <<total_score, total_weight>>
ScoreStep(acc, result, weight) ==
    IF result # <<>> /\ result[1].value # NULL
    THEN <<FAdd(acc[1],
                FScale(Polarity(is_lower_better(result[1].indicator_name[1]),
                                normalize_value(result[1].value[1],
                                                result[1].indicator_name[1])),
                       weight)),
           acc[2] + weight>>
    ELSE acc

RECURSIVE ScoreLoopCountingAll(_, _, _, _)
\* A loop that adds the weight of every indicator to total_weight, with or
\* without an observation.
ScoreLoopCountingAll(inds, city_code, weights, acc) ==
    IF weights = <<>> THEN acc
    ELSE ScoreLoopCountingAll(
             inds, city_code, Tail(weights),
             [ScoreStep(acc, LatestRow(inds, city_code, Head(weights)[1]),
                        Head(weights)[2])
                 EXCEPT ![2] = acc[2] + Head(weights)[2]])

RECURSIVE ScoreLoop(_, _, _, _)
ScoreLoop(inds, city_code, weights, acc) ==
    IF weights = <<>> THEN acc
    ELSE ScoreLoop(inds, city_code, Tail(weights),
                   ScoreStep(acc, LatestRow(inds, city_code, Head(weights)[1]),
                             Head(weights)[2]))

calculate_score(inds, city_code, weights) ==
    LET Average(acc) == IF acc[2] > 0 THEN FOver(acc[1], acc[2]) ELSE FZero
    IN  Average(ScoreLoop(inds, city_code, weights, <<FZero, 0>>))

(***************************************************************************)
(* rank_cities and rank_cities_advanced                                    *)
(***************************************************************************)
\* round(score, 3): the double nearest to the number of thousandths that is
\* nearest to the score, the even one of two that are equally near.  A
\* double that is an integer, inf, -inf and nan round to themselves.
Round3(x) ==
    IF x.k # "fin" \/ x.e >= 0 THEN x
    ELSE Round(x.s, RoundShift(BMulSmall(x.m, 1000), 0 - x.e, FALSE), <<1000>>, 0)

\* s[:limit]
Slice(s, limit) ==
    LET n == IF limit >= 0 THEN limit ELSE Len(s) + limit
    IN  SubSeq(s, 1, IF n > Len(s) THEN Len(s) ELSE IF n < 0 THEN 0 ELSE n)

\* A stable descending sort: s[n] goes after the entries that are not
\* below it, so entries that compare equal keep their order.  This is
\* list.sort(key, reverse=True) and, for the rows of a table scan, what
\* SQLite's sorter returns.
SortDesc(s, Geq(_, _)) ==
    LET RECURSIVE Sorted(_)
        Sorted(n) ==
            IF n = 0 THEN <<>>
            ELSE LET prev == Sorted(n - 1)
                     at == Cardinality({k \in 1..Len(prev) : Geq(prev[k], s[n])})
                 IN  SubSeq(prev, 1, at) \o <<s[n]>> \o SubSeq(prev, at + 1, Len(prev))
    IN  Sorted(Len(s))

\* SELECT ... FROM cities [WHERE country = ?]: `if country_filter` is false
\* for None and for the empty string
CitiesOf(cs, country_filter) ==
    LET Keep(r) == \/ IsNone(country_filter)
                   \/ country_filter.s = <<>>
                   \/ r.country = Val(country_filter.s)
    IN  Filter(cs, Keep)

\* the ranking entry of a city
\* score = self.calculate_score(city_code, weights), for every city
Scores(rows, inds, weights) ==
    [n \in 1..Len(rows) |-> calculate_score(inds, rows[n].city_code, weights)] \o <<>>

\* the entries of the cities whose score is above 0, in the order of rows
RankEntries(rows, scores) ==
    LET Positive(n) == FPositive(scores[n])
        kept == SelectSeq([n \in 1..Len(rows) |-> n] \o <<>>, Positive)
    IN  [k \in 1..Len(kept) |->
            [city_code |-> rows[kept[k]].city_code,
             city_name |-> rows[kept[k]].city_name,
             country |-> rows[kept[k]].country,
             score |-> Round3(scores[kept[k]])]] \o <<>>

rank_cities(cs, inds, weights, limit, country_filter) ==
    LET ScoreGeq(a, b) == ~FLess(a.score, b.score)
        rows == CitiesOf(cs, country_filter)
    IN  Slice(SortDesc(RankEntries(rows, Scores(rows, inds, weights)), ScoreGeq),
              limit)

\* ORDER BY population DESC: a NULL population sorts last
PopGeq(a, b) ==
    \/ b.population = NULL
    \/ a.population # NULL /\ a.population[1] >= b.population[1]

\* A population ranking that returns the rows in the order of the table.
PopulationRankingUnordered(rows, limit) ==
    LET top == IF limit < 0 THEN rows ELSE Slice(rows, limit)
    IN  [n \in 1..Len(top) |->
            [city_name |-> top[n].city_name, country |-> top[n].country,
             score |-> top[n].population]]

\* SELECT city_name, country, population ... ORDER BY population DESC LIMIT ?
\* (a negative LIMIT is no limit)
PopulationRanking(rows, limit) ==
    LET sorted == SortDesc(rows, PopGeq)
        top == IF limit < 0 THEN sorted ELSE Slice(sorted, limit)
    IN  [n \in 1..Len(top) |->
            [city_name |-> top[n].city_name, country |-> top[n].country,
             score |-> top[n].population]]

\* The class defines rank_cities_advanced twice; the second definition
\* replaces the first, so this is the method every caller gets.
rank_cities_advanced(cs, inds, weights, country, limit) ==
    IF weights = <<>>
    THEN LET InCountry(r) == r.country = Val(country)
         IN  PopulationRanking(Filter(cs, InCountry), limit)
    ELSE rank_cities(cs, inds, weights, limit, PyStr(country))

(***************************************************************************)
(* Bounds of the model: the largest size of a cube dimension, the largest  *)
(* weight and limit a caller passes, and the number of rows without a year *)
(* up to which the caller of SpecUndated goes on ingesting cubes without a *)
(* time dimension.  Rows with a year are bounded by the codes of the       *)
(* cubes; store_data has no limit on the rows without one, which every     *)
(* ingestion of such a cube adds to.                                       *)
(***************************************************************************)
MaxSize == 2
MaxWeight == 2
MaxLimit == 2
MaxUndated == 2

(***************************************************************************)
(* The operations                                                          *)
(***************************************************************************)
Init ==
    /\ cities = <<>>
    /\ indicators = <<>>
    /\ last = [op |-> "idle"]

\* Calls are served one at a time: a call starts when none is in progress,
\* runs to its end, and last holds its arguments and result until it returns.
Idle == last.op = "idle"

Return ==
    /\ ~Idle
    /\ last' = [op |-> "idle"]
    /\ UNCHANGED <<cities, indicators>>

ParseJsonstat(data) ==
    /\ Idle
    /\ last' = [op |-> "parse_jsonstat", data |-> data,
                result |-> parse_jsonstat(data)]
    /\ UNCHANGED <<cities, indicators>>

\* _index_to_coords is a static method; a size of 0 raises
IndexToCoords(index, sizes) ==
    /\ Idle
    /\ last' = [op |-> "index_to_coords", index |-> index, sizes |-> sizes,
                raised |-> CoordsRaise(sizes),
                result |-> IF CoordsRaise(sizes) THEN <<>>
                           ELSE index_to_coords(index, sizes)]
    /\ UNCHANGED <<cities, indicators>>

IngestCsv(rows) ==
    /\ Idle
    /\ cities' = IngestRows(cities, rows)
    /\ last' = [op |-> "ingest_csv", rows |-> rows]
    /\ UNCHANGED indicators

StoreData(dataset) ==
    LET Commit(done) ==
            /\ cities' = done.cities
            /\ indicators' = done.indicators
            /\ last' = [op |-> "store_data", data |-> dataset,
                        raised |-> done.raised, records |-> done.records,
                        before |-> [cities |-> cities, indicators |-> indicators],
                        cities_added |-> done.cities_added,
                        indicators_added |-> done.indicators_added,
                        skipped |-> done.skipped, errors |-> done.errors]
    IN  /\ Idle
        /\ Commit(store_data(cities, indicators, dataset))

CalculateScore(city_code, weights) ==
    /\ Idle
    /\ last' = [op |-> "calculate_score", city_code |-> city_code,
                weights |-> weights,
                result |-> calculate_score(indicators, city_code, weights)]
    /\ UNCHANGED <<cities, indicators>>

RankCities(weights, limit, country_filter) ==
    /\ Idle
    /\ last' = [op |-> "rank_cities", weights |-> weights, limit |-> limit,
                country_filter |-> country_filter,
                result |-> rank_cities(cities, indicators, weights, limit,
                                       country_filter)]
    /\ UNCHANGED <<cities, indicators>>

RankCitiesAdvanced(weights, country, limit) ==
    /\ Idle
    /\ last' = [op |-> "rank_cities_advanced", weights |-> weights,
                country |-> country, limit |-> limit,
                result |-> rank_cities_advanced(cities, indicators, weights,
                                                country, limit)]
    /\ UNCHANGED <<cities, indicators>>

(***************************************************************************)
(* The inputs the operations are given                                     *)
(***************************************************************************)
DimCities == <<"c","i","t","i","e","s">>
DimIndic == <<"i","n","d","i","c","_","u","r">>
DimTime == <<"t","i","m","e">>
DimUnit == <<"u","n","i","t">>

FR1C == <<"F","R","1","C">>
FR2C == <<"f","r","2","C">>
FR3C == <<"F","R","3","C">>
DE1C == <<"D","E","1","C">>
XX001 == <<"X","X","0","0","1">>
IndA == <<"A">>
IndB == <<"B">>
IndC == <<"C">>
NameShare == <<"S","h","a","r","e"," ","%">>
NameCost == <<"C","o","s","t"," ","E","U","R">>
NamePeople == <<"P","o","p","u","l","a","t","i","o","n">>
Y2020 == <<"2","0","2","0">>
Y2021 == <<"2","0","2","1">>
YQuarter == <<"2","0","Q","1">>
CountryFR == <<"F","R">>
CountryDE == <<"D","E">>

\* the category codes of a dimension, by position
CodesOf(dim_name) ==
    IF dim_name = DimCities THEN <<FR1C, XX001, DE1C>>
    ELSE IF dim_name = DimIndic THEN <<IndA, IndB, IndC>>
    ELSE IF dim_name = DimTime THEN <<Y2020, YQuarter, Y2021>>
    ELSE <<<<"N","R">>, <<"P","C">>, <<"K","M">>>>

\* the metadata of a dimension with the given codes: code k has index k - 1;
\* the index dict lists the codes from the last to the first, and only the
\* codes in labelled have a label
DimMeta(codes, labelled) ==
    [index |-> [k \in 1..Len(codes) |->
                   <<codes[Len(codes) + 1 - k], Len(codes) - k>>],
     label |-> labelled]

\* a cube over the dimensions ids with the given sizes, with metadata for
\* every dimension but those in missing
Cube(ids, sizes, missing, labelled, value, status) ==
    LET present == {k \in 1..Len(ids) : ids[k] \notin missing}
        RECURSIVE Dims(_)
        Dims(k) ==
            IF k = 0 THEN <<>>
            ELSE IF k \in present
            THEN Append(Dims(k - 1),
                        <<ids[k], DimMeta(SubSeq(CodesOf(ids[k]), 1, sizes[k]), labelled)>>)
            ELSE Dims(k - 1)
    IN  [id |-> ids, size |-> sizes, dimension |-> Dims(Len(ids)),
         value |-> value, status |-> status]

Labels == <<<<IndA, NameShare>>, <<FR1C, <<"P","a","r","i","s">>>>>>

\* two value arrays of each length: distinct integers, and a mix of null,
\* text and integers
ValueArrays(len) ==
    { [k \in 1..len |-> PyInt(7 * k - 10)],
      [k \in 1..len |-> IF k % 3 = 1 THEN PyNone
                        ELSE IF k % 3 = 2 THEN PyStr(<<"x">>)
                        ELSE PyStr(<<"1","2">>)] }

StatusMaps ==
    { <<>>,
      << <<PyStr(<<"0">>), <<"e">>>> >>,
      << <<PyInt(0), <<"p">>>>, <<PyStr(<<"1">>), <<"e">>>> >> }

DecodeIds ==
    { <<DimCities, DimIndic, DimTime>>, <<DimUnit, DimCities>>, <<DimIndic>> }

\* no dimension without metadata, or exactly one
MissingSets(ids) == {{}} \cup { {ids[k]} : k \in 1..Len(ids) }

\* the declared length of the value array, one less and one more
Lengths(sizes) ==
    { n \in (Product(sizes) - 1)..(Product(sizes) + 1) : n >= 0 }

ShapedCubes(ids, sizes) ==
    UNION { { Cube(ids, sizes, missing, Labels, value, status) :
                  missing \in MissingSets(ids), status \in StatusMaps }
            : value \in UNION { ValueArrays(len) : len \in Lengths(sizes) } }

\* cubes of every shape up to MaxSize per dimension, and one cube that
\* declares fewer sizes than dimensions
DecodeCubes ==
    UNION { UNION { ShapedCubes(ids, sizes) : sizes \in [1..Len(ids) -> 0..MaxSize] }
            : ids \in DecodeIds }
      \cup { [id |-> <<DimCities, DimIndic>>, size |-> <<1>>,
              dimension |-> <<>>, value |-> <<PyInt(1)>>, status |-> <<>>] }

NextDecode ==
    \/ \E data \in DecodeCubes : ParseJsonstat(data)
    \/ Return

SpecDecode == Init /\ [][NextDecode]_vars

(***************************************************************************)
(* Ingestion (Spec): the gazetteer files and the cubes that are ingested   *)
(***************************************************************************)
GazRow(code, country, population) ==
    [city_code |-> code, city_name |-> Val(Lower(code)),
     country |-> Val(country), population |-> population]

Gazetteers ==
    { <<GazRow(DE1C, CountryDE, Val(100)), GazRow(FR1C, CountryFR, Val(200))>> }

\* the shapes of the ingested cubes: <<ids, sizes, dimensions without
\* metadata>>.  With CodesOf, the second time code is no year and the second
\* city code lacks the final "C".
IngestShapes ==
    { <<<<DimCities, DimIndic, DimTime>>, <<1, 1, 1>>, {}>>,
      <<<<DimCities, DimIndic, DimTime>>, <<1, 1, 3>>, {}>>,
      <<<<DimCities, DimIndic, DimTime>>, <<2, 1, 2>>, {}>>,
      <<<<DimCities, DimIndic, DimTime>>, <<1, 1, 2>>, {DimCities}>>,
      <<<<DimCities, DimTime>>, <<1, 2>>, {}>>,
      <<<<DimIndic, DimTime>>, <<1, 2>>, {}>>,
      <<<<DimCities, DimIndic, DimTime, DimUnit>>, <<1, 1, 1, 2>>, {}>> }

\* two ways of filling a cube: labelled codes, ascending values and no
\* status; or no labels, a first value that is no number, and a status for
\* the second cell
IngestCube(ids, sizes, missing, variant, len) ==
    IF variant = 1
    THEN Cube(ids, sizes, missing, Labels,
              [k \in 1..len |-> PyInt(10 * k)], <<>>)
    ELSE Cube(ids, sizes, missing, <<>>,
              [k \in 1..len |-> IF k = 1 THEN PyStr(<<"x">>) ELSE PyInt(5)],
              << <<PyInt(1), <<"p">>>> >>)

\* a cube of three cells whose status map, keyed as JSON keys are by the
\* flat index written as text, has an entry for the last cell only
TextStatusCube ==
    Cube(<<DimCities, DimIndic, DimTime>>, <<1, 1, 3>>, {}, Labels,
         <<PyInt(10), PyInt(20), PyInt(30)>>,
         << <<PyStr(<<"2">>), <<"p">>>> >>)

\* a cube of six cells whose years and values are texts: years with
\* whitespace (a vertical tab, a space, a line feed), an underscore or a
\* sign around the digits, one with a decimal point and the year 2^63;
\* values with an underscore, a sign after a vertical tab, a fraction, an
\* exponent, and the texts of nan and of -inf.  The first two years are one
\* year, and so are the fourth and the fifth.
NumberTextCube ==
    [id |-> <<DimCities, DimIndic, DimTime>>, size |-> <<1, 1, 6>>,
     dimension |->
         << <<DimCities, DimMeta(<<FR1C>>, Labels)>>,
            <<DimIndic, DimMeta(<<IndA>>, Labels)>>,
            <<DimTime,
              DimMeta(<< <<"","2","0","2","0"," ">>, <<"2","_","0","2","0">>,
                         <<"2","0","2","0",".","0">>, <<"2","0","2","1","\n">>,
                         <<"+","2","0","2","1">>,
                         <<"9","2","2","3","3","7","2","0","3","6",
                           "8","5","4","7","7","5","8","0","8">> >>, Labels)>> >>,
     value |-> << PyStr(<<"1","_","2">>), PyStr(<<"","-","7",".","5">>),
                  PyStr(<<"3","e","1">>), PyStr(<<"n","a","n">>),
                  PyStr(<<"-","I","n","f">>),
                  PyStr(<<"1","_","0",".","2","_","5","e","1","_","0">>) >>,
     status |-> <<>>]

\* every shape filled both ways, the cube with the text-keyed status and
\* the cube with the number texts
IngestCubes ==
    { IngestCube(shape[1], shape[2], shape[3], variant, Product(shape[2])) :
        shape \in IngestShapes, variant \in {1, 2} }
      \cup {TextStatusCube, NumberTextCube}

Next ==
    \/ \E rows \in Gazetteers : IngestCsv(rows)
    \/ \E dataset \in IngestCubes : StoreData(dataset)
    \/ Return

Spec == Init /\ [][Next]_vars

(***************************************************************************)
(* Scoring (SpecScore): cubes with the observations of one city for two    *)
(* indicators and two years, and the calls of calculate_score              *)
(***************************************************************************)
ScoreLabels ==
    <<<<IndA, NameShare>>, <<IndB, NameCost>>, <<IndC, NamePeople>>>>

\* The values are null, a negative one, one inside the scale and one beyond.
\* FR1C: A and B in 2020; or A in 2020 and in 2021 (the cell between them
\* has a time code that is no year)
ScoreCubes ==
    { Cube(<<DimCities, DimIndic, DimTime>>, <<1, 2, 1>>, {}, ScoreLabels,
           <<PyInt(-50), PyInt(40)>>, <<>>) }
      \cup
    { Cube(<<DimCities, DimIndic, DimTime>>, <<1, 1, 3>>, {}, ScoreLabels,
           <<PyInt(40), PyNone, b>>, <<>>) :
               b \in {PyNone, PyStr(<<"1",".","5","e","2">>)} }

IndCodes == {IndA, IndB, IndC}

\* the weight maps of at most two indicators with weights 1..MaxWeight, as
\* the dict's items in insertion order; a map of two lists them as A, B, C
\* are listed
CodePairs == {<<IndA, IndB>>, <<IndA, IndC>>, <<IndB, IndC>>}
WeightMaps ==
    {<<>>}
      \cup { <<<<c, w>>>> : c \in IndCodes, w \in 1..MaxWeight }
      \cup { <<<<p[1], w>>, <<p[2], v>>>> :
                p \in CodePairs, w \in 1..MaxWeight, v \in 1..MaxWeight }

NextScore ==
    \/ \E dataset \in ScoreCubes : StoreData(dataset)
    \/ \E weights \in WeightMaps : CalculateScore(FR1C, weights)
    \/ \E weights \in WeightMaps :
          Len(weights) = 1 /\ CalculateScore(DE1C, weights)
    \/ Return

SpecScore == Init /\ [][NextScore]_vars

(***************************************************************************)
(* Cubes without a time dimension (SpecUndated): every ingestion of such a *)
(* cube adds rows without a year, so the caller is bounded: it ingests one *)
(* only while the table holds fewer than MaxUndated rows without a year.   *)
(* A cube with a year and the scores of FR1C show the rows without a year  *)
(* next to the dated ones.                                                 *)
(***************************************************************************)
NextUndated ==
    \/ \E a \in {PyNone, PyInt(10), PyInt(40)} :
          /\ Cardinality({n \in 1..Len(indicators) :
                              indicators[n].year = NULL}) < MaxUndated
          /\ StoreData(Cube(<<DimCities, DimIndic>>, <<1, 1>>, {}, ScoreLabels,
                            <<a>>, <<>>))
    \/ \E b \in {PyNone, PyInt(150)} :
          StoreData(Cube(<<DimCities, DimIndic, DimTime>>, <<1, 1, 1>>, {},
                         ScoreLabels, <<b>>, <<>>))
    \/ \E weights \in WeightMaps :
          Len(weights) = 1 /\ weights[1][2] = 1 /\ CalculateScore(FR1C, weights)
    \/ Return

SpecUndated == Init /\ [][NextUndated]_vars

(***************************************************************************)
(* Ranking (SpecRank): gazetteer files give the cities a country and a     *)
(* population (or none); cubes give four cities the indicators A (a share) *)
(* and C (a count) for 2020.                                               *)
(***************************************************************************)
RankGazetteers ==
    { <<GazRow(FR1C, CountryFR, Val(200)), GazRow(FR2C, CountryFR, Val(300)),
        GazRow(DE1C, CountryDE, Val(100))>>,
      <<GazRow(FR3C, CountryFR, Val(300)), GazRow(FR1C, CountryFR, NULL)>> }

\* the values of a cube, city by city: <<A, C>> of FR1C, fr2C, FR3C, DE1C
RankValues ==
    { <<PyNone, PyInt(40),   PyNone, PyInt(160),  PyNone, PyInt(240),
        PyInt(40), PyNone>>,
      <<PyInt(40), PyInt(1200),  PyInt(-50), PyNone,  PyNone, PyNone,
        PyNone, PyInt(40)>>,
      <<PyInt(40), PyNone,  PyInt(150), PyInt(40),  PyInt(40), PyInt(160),
        PyInt(-50), PyInt(1200)>> }

RankCubes ==
    { [id |-> <<DimCities, DimIndic, DimTime>>, size |-> <<4, 2, 1>>,
       dimension |->
           << <<DimCities, DimMeta(<<FR1C, FR2C, FR3C, DE1C>>, ScoreLabels)>>,
              <<DimIndic, DimMeta(<<IndA, IndC>>, ScoreLabels)>>,
              <<DimTime, DimMeta(<<Y2020>>, ScoreLabels)>> >>,
       value |-> v, status |-> <<>>] : v \in RankValues }

\* no weights, one indicator (B has no observation), or A and C weighted
RankWeightMaps ==
    {<<>>}
      \cup { <<<<c, 1>>>> : c \in IndCodes }
      \cup { <<<<IndA, w>>, <<IndC, v>>>> : w \in 1..MaxWeight, v \in 1..MaxWeight }

CountryFilters == {PyNone, PyStr(<<>>), PyStr(CountryFR), PyStr(CountryDE)}

NextRank ==
    \/ \E rows \in RankGazetteers : IngestCsv(rows)
    \/ \E dataset \in RankCubes : StoreData(dataset)
    \/ \E weights \in RankWeightMaps, limit \in 0..MaxLimit,
          country_filter \in CountryFilters :
          RankCities(weights, limit, country_filter)
    \/ \E weights \in RankWeightMaps, country \in {CountryFR, CountryDE},
          limit \in 0..MaxLimit :
          RankCitiesAdvanced(weights, country, limit)
    \/ Return

SpecRank == Init /\ [][NextRank]_vars

(***************************************************************************)
(* The coordinate decoder alone (SpecCoords): size lists of up to three    *)
(* dimensions, sizes from 0 (which raises) to MaxSize + 1, and every index *)
(* from one below 0 to one past the last cell.                             *)
(***************************************************************************)
CoordSizes == UNION { [1..n -> 0..MaxSize + 1] : n \in 0..3 }

CoordIndexes(sizes) == -1..(Product(sizes) + 1)

NextCoords ==
    \/ \E sizes \in CoordSizes : \E index \in CoordIndexes(sizes) :
          IndexToCoords(index, sizes)
    \/ Return

SpecCoords == Init /\ [][NextCoords]_vars

(***************************************************************************)
(* Properties of the decoder (SpecDecode)                                  *)
(***************************************************************************)
Parsed == last.op = "parse_jsonstat"

\* the cube declares one size per dimension and as many values as cells
WellShaped(data) ==
    /\ Len(data.size) = Len(data.id)
    /\ Product(data.size) = Len(data.value)

\* the flat index of a cell, the last dimension varying fastest
RECURSIVE FlatIndex(_, _)
FlatIndex(coords, sizes) ==
    IF coords = <<>> THEN 0
    ELSE FlatIndex(SubSeq(coords, 1, Len(coords) - 1),
                   SubSeq(sizes, 1, Len(sizes) - 1)) * sizes[Len(sizes)]
           + coords[Len(coords)]

\* the cells of a cube: one coordinate below the size for each dimension
Cells(sizes) ==
    { c \in [1..Len(sizes) -> 0..MaxSize + 1] : \A k \in 1..Len(sizes) : c[k] < sizes[k] }

HasMetadata(data, dim_name) == DictHas(data.dimension, dim_name)

\* the category code of a dimension at a coordinate, and its label
CodeAt(data, dim_name, coord) ==
    LET index == DictGet(data.dimension, dim_name, <<>>).index
    IN  index[CHOOSE n \in 1..Len(index) : index[n][2] = coord][1]
LabelOf(data, dim_name, code) ==
    LET label == DictGet(data.dimension, dim_name, <<>>).label
    IN  IF DictHas(label, code) THEN DictGet(label, code, <<>>) ELSE code

\* record is the flat record of cell c of the cube
IsRecordOfCell(data, record, c) ==
    \A k \in 1..Len(data.id) :
        LET dim_name == data.id[k]
        IN  IF HasMetadata(data, dim_name)
            THEN /\ DictHas(record, dim_name)
                 /\ DictHas(record, LabelKey(dim_name))
                 /\ DictGet(record, dim_name, PyNone)
                      = PyStr(CodeAt(data, dim_name, c[k]))
                 /\ DictGet(record, LabelKey(dim_name), PyNone)
                      = PyStr(LabelOf(data, dim_name, CodeAt(data, dim_name, c[k])))
            ELSE /\ ~DictHas(record, dim_name)
                 /\ ~DictHas(record, LabelKey(dim_name))

\* C9: decoding a cube whose sizes have a product different from the length
\* of its value array fails with an error and produces no records.  (Python
\* has no InvalidCubeShape: any exception raised by the call is accepted.)
C9_MismatchRejected ==
    (Parsed /\ Product(last.data.size) # Len(last.data.value))
        => /\ ~last.result.ok
           /\ last.result.records = <<>>

\* the call returned len(value) records in flat-index order; record idx has
\* value = values[idx], the code and label fields of every dimension that
\* has metadata (the label defaulting to the code), and no field of a
\* dimension without metadata
DecodedInOrder ==
    /\ last.result.ok
    /\ Len(last.result.records) = Len(last.data.value)
    /\ \A c \in Cells(last.data.size) :
          LET idx == FlatIndex(c, last.data.size)
              record == last.result.records[idx + 1]
          IN  /\ DictGet(record, KeyValue, PyStr(<<>>)) = last.data.value[idx + 1]
              /\ IsRecordOfCell(last.data, record, c)

\* C10 as stated: for every cube whose product of sizes equals len(value),
\* parse_jsonstat returns len(value) records in flat-index order, each with
\* its value and the fields of every declared dimension that has metadata.
C10_EveryMatchingCubeDecoded ==
    (Parsed /\ Product(last.data.size) = Len(last.data.value)) => DecodedInOrder

\* C10, for the cubes that also declare one size per dimension: for a cube
\* with as many sizes as dimension names whose product of sizes equals
\* len(value), parse_jsonstat returns len(value) records in flat-index
\* order; record idx has value = values[idx], the code and label fields of
\* every dimension that has metadata (the label defaulting to the code),
\* and no field of a dimension without metadata.
C10_DecodeRecords ==
    (Parsed /\ WellShaped(last.data)) => DecodedInOrder

\* a decoded cube of four cells with a dimension without metadata, and one
\* code of a dimension with metadata that has no label
C10_Witness ==
    /\ Parsed
    /\ WellShaped(last.data)
    /\ Len(last.data.value) = 4
    /\ Len(last.result.records) = 4
    /\ \E k \in 1..Len(last.data.id) : ~HasMetadata(last.data, last.data.id[k])
    /\ \E k \in 1..Len(last.data.id) :
          /\ HasMetadata(last.data, last.data.id[k])
          /\ DictGet(last.result.records[4], last.data.id[k], PyNone)
               = DictGet(last.result.records[4], LabelKey(last.data.id[k]), PyStr(<<>>))

(***************************************************************************)
(* Properties of ingestion (Spec)                                          *)
(***************************************************************************)
Stored == last.op = "store_data" /\ ~last.raised

Range(seq) == {seq[n] : n \in 1..Len(seq)}

\* the roles of a flat record
HasEntityDim(record) == \E n \in 1..Len(record) : IsCityKey(record[n][1])
HasIndicDim(record) == \E n \in 1..Len(record) : IsIndicKey(record[n][1])
EntityCode(record) == DictGet(record, FirstKey(record, IsCityKey)[1], PyNone).s
IndicCode(record) == DictGet(record, FirstKey(record, IsIndicKey)[1], PyNone).s

\* a two-letter country prefix and, at the end, the marker "C"
FollowsConvention(code) == Len(code) >= 3 /\ code[Len(code)] = "C"
EndsWithMarker(code) == code # <<>> /\ code[Len(code)] = "C"

\* the record has an entity whose code ends with the marker, and an
\* indicator
Resolvable(record) ==
    /\ HasEntityDim(record)
    /\ EndsWithMarker(EntityCode(record))
    /\ HasIndicDim(record)

\* the record lacks an entity dimension or an indicator dimension, or its
\* entity code is outside the convention
Unresolvable(record) ==
    \/ ~HasEntityDim(record)
    \/ ~HasIndicDim(record)
    \/ ~FollowsConvention(EntityCode(record))

\* the value of the record is text that float() does not convert, or its
\* year is text that int() does not convert or converts to an integer
\* beyond the 64 bits of the store's integers
BadValue(record) ==
    LET v == DictGet(record, KeyValue, PyNone)
    IN  IsStr(v) /\ ~IsFloatText(v.s)
BadYear(record) ==
    /\ DictHas(record, KeyTime)
    /\ \/ ~IsIntText(DictGet(record, KeyTime, PyNone).s)
       \/ ~ZFits64(IntTextVal(DictGet(record, KeyTime, PyNone).s))
Malformed(record) == BadValue(record) \/ BadYear(record)

Valid(record) == Resolvable(record) /\ ~Malformed(record)

\* the observation a valid record stands for: its year as an integer and
\* its value as a real, null when the record has no value or one that is
\* not a number (nan)
ObservationOf(record) ==
    LET v == DictGet(record, KeyValue, PyNone)
    IN  [city_code |-> EntityCode(record),
         indicator_code |-> IndicCode(record),
         indicator_name |-> Val(DictGet(record, LabelKey(FirstKey(record, IsIndicKey)[1]),
                                        PyNone).s),
         year |-> IF DictHas(record, KeyTime)
                  THEN Val(IntTextVal(DictGet(record, KeyTime, PyNone).s))
                  ELSE NULL,
         value |-> IF IsNone(v) THEN NULL ELSE BindReal(Val(FloatVal(v))),
         status |-> Val(DictGet(record, KeyStatus, PyNone).s)]

SameTriple(a, b) ==
    /\ a.city_code = b.city_code
    /\ a.indicator_code = b.indicator_code
    /\ a.year = b.year

CountOf(records, P(_)) == Cardinality({n \in 1..Len(records) : P(records[n])})

\* C2: table indicators holds at most one row per (city_code,
\* indicator_code, year), whatever cubes were ingested (SpecUndated: the
\* cubes include those without a time dimension).
C2_OneRowPerTriple ==
    \A n, m \in 1..Len(indicators) :
        SameTriple(indicators[n], indicators[m]) => n = m

\* C7 as stated: every record whose value or year is no number is counted
\* in errors, and in no other counter.
C7_EveryMalformedCounted ==
    Stored => last.errors = CountOf(last.records, Malformed)

\* C7, amended: a record that has an entity whose code ends with the marker
\* and an indicator, and whose value or year is no number, adds no observation and
\* is counted once in errors and in no other counter; the batch goes on, and
\* the observation of every valid record, earlier or later, is in the table
\* unless a later valid record of the batch replaced it.
C7_MalformedCountedBatchGoesOn ==
    Stored =>
        LET IsError(r) == Resolvable(r) /\ Malformed(r)
            NotResolvable(r) == ~Resolvable(r)
            valid == {n \in 1..Len(last.records) : Valid(last.records[n])}
        IN  /\ last.errors = CountOf(last.records, IsError)
            /\ last.indicators_added = Cardinality(valid)
            /\ last.skipped <= CountOf(last.records, NotResolvable)
            /\ \A row \in Range(indicators) :
                  \/ row \in Range(last.before.indicators)
                  \/ \E n \in valid : row = ObservationOf(last.records[n])
            /\ \A n \in valid :
                  \/ ObservationOf(last.records[n]) \in Range(indicators)
                  \/ \E m \in valid :
                        /\ m > n
                        /\ ObservationOf(last.records[m]).year # NULL
                        /\ SameTriple(ObservationOf(last.records[m]),
                                      ObservationOf(last.records[n]))

\* a batch with a valid record, then a record whose year is no number, then
\* a valid record, both valid ones in the table
C7_Witness ==
    /\ Stored
    /\ \E a, b, c \in 1..Len(last.records) :
          /\ a < b
          /\ b < c
          /\ Valid(last.records[a])
          /\ Resolvable(last.records[b])
          /\ BadYear(last.records[b])
          /\ Valid(last.records[c])
          /\ ObservationOf(last.records[a]) \in Range(indicators)
          /\ ObservationOf(last.records[c]) \in Range(indicators)
    /\ last.errors >= 1

\* C8: every record without an entity dimension, without an indicator
\* dimension or with an entity code outside the convention is counted in
\* skipped and writes no row: every new row of table cities is the entity
\* of a resolvable record.
C8_UnresolvableSkipped ==
    Stored =>
        /\ last.skipped = CountOf(last.records, Unresolvable)
        /\ \A row \in Range(cities) \ Range(last.before.cities) :
              \E n \in 1..Len(last.records) :
                  /\ ~Unresolvable(last.records[n])
                  /\ EntityCode(last.records[n]) = row.city_code

(***************************************************************************)
(* Properties of scoring (SpecScore)                                       *)
(***************************************************************************)
Scored == last.op = "calculate_score"

\* the observations of a city for an indicator, as positions in the table
ObservationsOf(city_code, indicator_code) ==
    { i \in 1..Len(indicators) :
        /\ indicators[i].city_code = city_code
        /\ indicators[i].indicator_code = indicator_code }

\* observation i is later than observation j: of a greater year, or dated
\* when j is not, or stored after j when neither is dated
Later(i, j) ==
    LET yi == indicators[i].year
        yj == indicators[j].year
    IN  \/ yi # NULL /\ (yj = NULL \/ ZLess(yj[1], yi[1]))
        \/ yi = NULL /\ yj = NULL /\ j < i
IsLatest(i, rows) == \A j \in rows \ {i} : Later(i, j)

\* the indicator has a latest observation for the city, with a value
HasLatestValue(city_code, indicator_code) ==
    \E i \in ObservationsOf(city_code, indicator_code) :
        /\ IsLatest(i, ObservationsOf(city_code, indicator_code))
        /\ indicators[i].value # NULL

\* the polarity-adjusted normalized latest value
AdjustedValue(city_code, indicator_code) ==
    LET rows == ObservationsOf(city_code, indicator_code)
        r == indicators[CHOOSE i \in rows : IsLatest(i, rows)]
        n == normalize_value(r.value[1], r.indicator_name[1])
    IN  IF is_lower_better(r.indicator_name[1]) THEN FAdd(FOne, FNeg(n)) ELSE n

\* x <= y
FLeq(x, y) == ~IsNaN(x) /\ ~IsNaN(y) /\ ~FLess(y, x)

\* the sum of weight * adjusted value, and the sum of the weights, over
\* those of the first n items of a weight map whose indicator has a latest
\* value: the sums of floats, term after term in the order of the map
RECURSIVE WeightedSum(_, _, _)
WeightedSum(city_code, weights, n) ==
    IF n = 0 THEN FZero
    ELSE IF HasLatestValue(city_code, weights[n][1])
    THEN FAdd(WeightedSum(city_code, weights, n - 1),
              FScale(AdjustedValue(city_code, weights[n][1]), weights[n][2]))
    ELSE WeightedSum(city_code, weights, n - 1)
RECURSIVE WeightSum(_, _)
WeightSum(weights, ks) ==
    IF ks = {} THEN 0
    ELSE LET k == CHOOSE x \in ks : TRUE
         IN  weights[k][2] + WeightSum(weights, ks \ {k})

\* C3: the score is the weighted average of the polarity-adjusted
\* normalized values over exactly the weighted indicators whose latest
\* observation for the city exists and has a value, and 0 when there is
\* none; adding an indicator without such an observation to the weight map
\* does not change the score.
C3_WeightedAverageOfAvailable ==
    Scored =>
        LET weights == last.weights
            city_code == last.city_code
            ks == { k \in 1..Len(weights) : HasLatestValue(city_code, weights[k][1]) }
        IN  /\ ks = {} => last.result = FZero
            /\ ks # {} =>
                  last.result = FOver(WeightedSum(city_code, weights, Len(weights)),
                                      WeightSum(weights, ks))
            /\ \A c \in IndCodes, w \in {1, MaxWeight} :
                  ( /\ \A k \in 1..Len(weights) : weights[k][1] # c
                    /\ ~HasLatestValue(city_code, c) )
                  => calculate_score(indicators, city_code,
                                     Append(weights, <<c, w>>)) = last.result

\* a score over two weighted indicators of which one has a latest value and
\* the other has observations but a null latest value
C3_Witness ==
    /\ Scored
    /\ Len(last.weights) = 2
    /\ HasLatestValue(last.city_code, last.weights[2][1])
    /\ ~HasLatestValue(last.city_code, last.weights[1][1])
    /\ \E i \in ObservationsOf(last.city_code, last.weights[1][1]) :
          indicators[i].value # NULL
    /\ last.result # FZero

\* C4: the score lies in the closed interval [0, 1].
C4_ScoreInUnitInterval ==
    Scored => FLeq(FZero, last.result) /\ FLeq(last.result, FOne)

(***************************************************************************)
(* Properties of ranking (SpecRank)                                        *)
(***************************************************************************)
Ranked == last.op = "rank_cities"
RankedAdvanced == last.op = "rank_cities_advanced"

\* the positions in table cities of the entities of a country
EntitiesOf(country) == { m \in 1..Len(cities) : cities[m].country = Val(country) }

\* population p ranks at or above population q: no population ranks last
AtOrAbove(p, q) == q = NULL \/ (p # NULL /\ p[1] >= q[1])

\* the entries of result are distinct entities among ms, entry by entry the
\* name, country and population of the entity, in non-increasing order of
\* population, and no entity left out ranks strictly above a returned one
IsPopulationRanking(result, ms, limit) ==
    /\ Len(result) = (IF Cardinality(ms) < limit THEN Cardinality(ms) ELSE limit)
    /\ \A i \in 1..Len(result), j \in 1..Len(result) :
          i < j => AtOrAbove(result[i].score, result[j].score)
    /\ \E f \in [1..Len(result) -> ms] :
          /\ \A i \in 1..Len(result), j \in 1..Len(result) : i # j => f[i] # f[j]
          /\ \A i \in 1..Len(result) :
                result[i] = [city_name |-> cities[f[i]].city_name,
                             country |-> cities[f[i]].country,
                             score |-> cities[f[i]].population]
          /\ \A m \in ms : \A i \in 1..Len(result) :
                (\A k \in 1..Len(result) : f[k] # m)
                => AtOrAbove(result[i].score, cities[m].population)

\* some entity of the country has an observation for a requested indicator
HasData(weights, country) ==
    \E n \in 1..Len(indicators), m \in EntitiesOf(country), k \in 1..Len(weights) :
        /\ indicators[n].city_code = cities[m].city_code
        /\ indicators[n].indicator_code = weights[k][1]

\* C1: rank_cities_advanced with a non-empty weight map, for a country in
\* which no entity has an observation for any requested indicator, returns
\* the population fallback: the entities of the country by population
\* descending with score = population, truncated to limit.
C1_FallbackWithoutData ==
    ( /\ RankedAdvanced
      /\ last.weights # <<>>
      /\ ~HasData(last.weights, last.country) )
    => IsPopulationRanking(last.result, EntitiesOf(last.country), last.limit)

\* the computed score of the entity of a ranking entry
ComputedScore(city_code, weights) == calculate_score(indicators, city_code, weights)

\* C5: rank_cities returns at most limit entries, in non-increasing order
\* of their reported score; no returned entry has a score <= 0, neither the
\* computed score of its entity nor the score field of the entry; every
\* entity whose computed score is <= 0 is absent from the result.
C5_RankedPositiveSortedLimited ==
    Ranked =>
        LET result == last.result
        IN  /\ Len(result) <= last.limit
            /\ \A i \in 1..Len(result), j \in 1..Len(result) :
                  i < j => ~FLess(result[i].score, result[j].score)
            /\ \A i \in 1..Len(result) :
                  /\ FPositive(ComputedScore(result[i].city_code, last.weights))
                  /\ FPositive(result[i].score)
            /\ \A m \in 1..Len(cities) :
                  ~FPositive(ComputedScore(cities[m].city_code, last.weights))
                  => \A i \in 1..Len(result) :
                        result[i].city_code # cities[m].city_code

\* C6: rank_cities_advanced with an empty weight map returns only entities
\* of the country, by descending population, with score = population, at
\* most limit of them; the call answers from table cities alone, whatever
\* observations are stored.
C6_EmptyWeightsPopulationRanking ==
    (RankedAdvanced /\ last.weights = <<>>)
    => /\ IsPopulationRanking(last.result, EntitiesOf(last.country), last.limit)
       /\ \A i \in 1..Len(last.result) : last.result[i].country = Val(last.country)
       /\ indicators # <<>> =>
             last.result = rank_cities_advanced(cities, <<>>, <<>>,
                                                last.country, last.limit)

\* an empty-weights ranking of a country of three entities, where the table
\* lists a smaller population before a greater one, cut to two entries while
\* observations are stored
C6_Witness ==
    /\ RankedAdvanced
    /\ last.weights = <<>>
    /\ indicators # <<>>
    /\ Cardinality(EntitiesOf(last.country)) = 3
    /\ last.limit = 2
    /\ Len(last.result) = 2
    /\ \E m \in EntitiesOf(last.country), n \in EntitiesOf(last.country) :
          /\ m < n
          /\ cities[m].population # NULL
          /\ cities[n].population # NULL
          /\ cities[m].population[1] < cities[n].population[1]

(***************************************************************************)
(* Properties of the coordinate decoder (SpecCoords)                       *)
(***************************************************************************)
Decoded == last.op = "index_to_coords"

\* the call is one the claim covers: positive sizes, index of a cell
ValidCell(index, sizes) ==
    /\ \A k \in 1..Len(sizes) : sizes[k] > 0
    /\ 0 <= index
    /\ index < Product(sizes)

\* the number of cells one step along dimension k skips: the product of the
\* sizes of the dimensions after k
Stride(sizes, k) == Product(SubSeq(sizes, k + 1, Len(sizes)))

RECURSIVE StrideSum(_, _, _)
\* coords[1] * Stride(1) + ... + coords[n] * Stride(n)
StrideSum(coords, sizes, n) ==
    IF n = 0 THEN 0
    ELSE StrideSum(coords, sizes, n - 1) + coords[n] * Stride(sizes, n)

\* C11: for positive sizes and 0 <= i < product(sizes), _index_to_coords
\* returns one coordinate per dimension, in the order of sizes, each within
\* 0 <= c_k < size_k, the last dimension varying fastest (its stride is 1,
\* that of dimension k the product of the later sizes), and re-encoding the
\* coordinates row-major recovers i.
C11_CoordsRoundTrip ==
    (Decoded /\ ValidCell(last.index, last.sizes))
    => LET coords == last.result
           sizes == last.sizes
       IN  /\ ~last.raised
           /\ Len(coords) = Len(sizes)
           /\ \A k \in 1..Len(sizes) : 0 <= coords[k] /\ coords[k] < sizes[k]
           /\ StrideSum(coords, sizes, Len(sizes)) = last.index
           /\ FlatIndex(coords, sizes) = last.index

\* a cell of a cube of three dimensions of sizes that differ, away from the
\* origin along every dimension
C11_Witness ==
    /\ Decoded
    /\ ValidCell(last.index, last.sizes)
    /\ Len(last.sizes) = 3
    /\ last.sizes[1] # last.sizes[3]
    /\ last.sizes[1] # last.sizes[2]
    /\ \A k \in 1..3 : last.result[k] > 0

(***************************************************************************)
(* Properties of the status of a cell (Spec)                               *)
(***************************************************************************)
RECURSIVE IndexText(_)
\* the flat index written as text: its decimal digits
IndexText(n) ==
    IF n < 10 THEN <<Digits[1][n + 1]>>
    ELSE IndexText(n \div 10) \o <<Digits[1][(n % 10) + 1]>>

\* every key of the status map is a flat index written as text
TextKeyed(status) ==
    \A n \in 1..Len(status) :
        /\ IsStr(status[n][1])
        /\ status[n][1].s # <<>>
        /\ \A k \in 1..Len(status[n][1].s) :
              \E d \in 1..10 : status[n][1].s[k] = Digits[1][d]

\* the entry of the status map for flat index idx, the empty string when
\* there is none
StatusEntry(status, idx) ==
    IF \E n \in 1..Len(status) : status[n][1] = PyStr(IndexText(idx))
    THEN status[CHOOSE n \in 1..Len(status) : status[n][1] = PyStr(IndexText(idx))][2]
    ELSE <<>>

\* C12: for a cube whose sparse status map is keyed by the flat index
\* written as text, the record decoded for flat index idx carries the
\* map's entry for idx, the empty string when there is none, and the
\* observation stored for that cell carries the same status.
C12_StatusOfCell ==
    (Stored /\ last.data.status # <<>> /\ TextKeyed(last.data.status))
    => \A n \in 1..Len(last.records) :
          LET record == last.records[n]
              expected == StatusEntry(last.data.status, n - 1)
          IN  /\ DictGet(record, KeyStatus, PyNone) = PyStr(expected)
              /\ Valid(record) =>
                    \E row \in Range(indicators) :
                        /\ SameTriple(row, ObservationOf(record))
                        /\ row.status = Val(expected)

====
